---- MODULE Spec2Model ----
(***************************************************************************)
(* Model of fetch_data (async_request.py) run against the aiohttp test     *)
(* application of unittest.py.                                             *)
(*                                                                         *)
(*   async with aiohttp.ClientSession() as session:        (line 15)       *)
(*       async with session.get(url) as response:          (line 16)       *)
(*           response.raise_for_status()                   (line 17)       *)
(*           return await response.text()                  (line 18)       *)
(*                                                                         *)
(* Each call is a coroutine.  Its position is pc[c]; the positions at      *)
(* which it is suspended on network I/O are the SuspensionPoints, and      *)
(* these are the only positions at which the transport can fail or the     *)
(* surrounding task can be cancelled.  Leaving the two async-with blocks   *)
(* is modelled by the Unwind steps.                                        *)
(***************************************************************************)
EXTENDS Integers, Sequences, FiniteSets, TLC

\* Number of fetch_data calls that may be in progress (bound of the model).
NumCalls == 2

Calls == 1..NumCalls

None == "None"

\* URLs handed to fetch_data: the two of the tests and one on a host/port
\* where no server listens.
URLs == {"/test", "/nonexistent", "unreachable"}

Reachable(u) == u # "unreachable"

\* ---------------------------------------------------------------- server
\* Texts are sequences of tokens; the wire carries their encoding.
Tokens == {"Mock", "response", "data", "404:", "Not", "Found"}

MockText == <<"Mock", "response", "data">>

NotFoundText == <<"404:", "Not", "Found">>

Code(t) ==
    CASE t = "Mock" -> 1
      [] t = "response" -> 2
      [] t = "data" -> 3
      [] t = "404:" -> 4
      [] t = "Not" -> 5
      [] t = "Found" -> 6

\* web.Response(text=...) encodes the text into the payload.
Encode(text) == [i \in 1..Len(text) |-> Code(text[i])]

\* response.text() decodes each received chunk.
Decode(b) == CHOOSE t \in Tokens : Code(t) = b

\* The router of the test application: /test has a handler, nothing else.
StatusOf(u) == IF u = "/test" THEN 200 ELSE 404

TextOf(u) == IF u = "/test" THEN MockText ELSE NotFoundText

\* ---------------------------------------------------------------- client
SuspensionPoints == {"connecting", "sending", "awaiting_headers", "reading"}

PCs == {"idle", "checking", "unwinding", "done"} \cup SuspensionPoints

Errors == {"HTTPStatusError", "TransportError", "ClientPayloadError",
           "CancelledError"}

VARIABLES
    pc,          \* position of each call
    url,         \* argument of each call
    session,     \* "none" | "open" | "closed": the call's ClientSession
    sid,         \* identity of the call's session (0: none yet)
    nextSid,     \* number of sessions created so far
    conn,        \* "none" | "open" | "closed": the connection of the session
    response,    \* "none" | "open" | "released": the ClientResponse
    status,      \* status code of the response, 0 before the headers
    pending,     \* payload chunks of the response not yet read
    buffer,      \* text decoded so far by response.text()
    returned,    \* whether the call has a return value
    result,      \* the text the call returns, if returned
    error,       \* exception raised by the call, None if none
    errStatus,   \* status carried by the HTTPStatusError, 0 if none
    attempts,    \* number of session.get invocations of the call
    sent,        \* number of requests the call put on the wire
    trace,       \* events of the call, in execution order
    reqs,        \* requests in flight to the server
    resps,       \* responses in flight to the clients
    served       \* per session: number of requests handled by the server

vars == <<pc, url, session, sid, nextSid, conn, response, status, pending,
          buffer, returned, result, error, errStatus, attempts, sent,
          trace, reqs, resps, served>>

clientLocal == <<url, sid, nextSid, status, pending, buffer, returned,
                 result, errStatus, attempts, sent>>

net == <<reqs, resps, served>>

Init ==
    /\ pc = [c \in Calls |-> "idle"]
    /\ url = [c \in Calls |-> None]
    /\ session = [c \in Calls |-> "none"]
    /\ sid = [c \in Calls |-> 0]
    /\ nextSid = 0
    /\ conn = [c \in Calls |-> "none"]
    /\ response = [c \in Calls |-> "none"]
    /\ status = [c \in Calls |-> 0]
    /\ pending = [c \in Calls |-> <<>>]
    /\ buffer = [c \in Calls |-> <<>>]
    /\ returned = [c \in Calls |-> FALSE]
    /\ result = [c \in Calls |-> <<>>]
    /\ error = [c \in Calls |-> None]
    /\ errStatus = [c \in Calls |-> 0]
    /\ attempts = [c \in Calls |-> 0]
    /\ sent = [c \in Calls |-> 0]
    /\ trace = [c \in Calls |-> <<>>]
    /\ reqs = {}
    /\ resps = {}
    /\ served = [s \in 1..NumCalls |-> 0]


\* Mutant of Call: a memoising fetch that answers from an earlier call's
\* result for the same URL instead of issuing a request.
CallCached(c, u) ==
    /\ pc[c] = "idle"
    /\ url' = [url EXCEPT ![c] = u]
    /\ attempts' = [attempts EXCEPT ![c] = @ + 1]
    /\ IF \E d \in Calls : returned[d] /\ url[d] = u
         THEN /\ returned' = [returned EXCEPT ![c] = TRUE]
              /\ result' = [result EXCEPT ![c] =
                    result[CHOOSE d \in Calls : returned[d] /\ url[d] = u]]
              /\ session' = [session EXCEPT ![c] = "closed"]
              /\ pc' = [pc EXCEPT ![c] = "done"]
              /\ UNCHANGED <<sid, nextSid, trace>>
         ELSE /\ pc' = [pc EXCEPT ![c] = "connecting"]
              /\ session' = [session EXCEPT ![c] = "open"]
              /\ nextSid' = nextSid + 1
              /\ sid' = [sid EXCEPT ![c] = nextSid + 1]
              /\ trace' = [trace EXCEPT ![c] = @ \o <<"session_open", "get">>]
              /\ UNCHANGED <<returned, result>>
    /\ UNCHANGED <<conn, response, status, pending, buffer, error, errStatus,
                   sent, net>>

\* fetch_data(url) is called: the ClientSession is created and entered and
\* session.get(url) is invoked, which suspends on connection acquisition.
Call(c, u) ==
    /\ pc[c] = "idle"
    /\ pc' = [pc EXCEPT ![c] = "connecting"]
    /\ url' = [url EXCEPT ![c] = u]
    /\ session' = [session EXCEPT ![c] = "open"]
    /\ nextSid' = nextSid + 1
    /\ sid' = [sid EXCEPT ![c] = nextSid + 1]
    /\ attempts' = [attempts EXCEPT ![c] = @ + 1]
    /\ trace' = [trace EXCEPT ![c] = @ \o <<"session_open", "get">>]
    /\ UNCHANGED <<conn, response, status, pending, buffer, returned, result,
                   error, errStatus, sent, net>>

\* An exception e leaves the coroutine at its current position: the
\* enclosing async-with blocks are left next.
Raise(c, e) ==
    /\ error' = [error EXCEPT ![c] = e]
    /\ pc' = [pc EXCEPT ![c] = "unwinding"]

\* The connection to a listening server is established.
Connect(c) ==
    /\ pc[c] = "connecting"
    /\ Reachable(url[c])
    /\ conn' = [conn EXCEPT ![c] = "open"]
    /\ pc' = [pc EXCEPT ![c] = "sending"]
    /\ UNCHANGED <<session, response, error, trace, clientLocal, net>>

\* Mutant of ConnectFail: the failure is swallowed and an empty text returned.
ConnectFailSwallowed(c) ==
    /\ pc[c] = "connecting"
    /\ returned' = [returned EXCEPT ![c] = TRUE]
    /\ pc' = [pc EXCEPT ![c] = "unwinding"]
    /\ UNCHANGED <<url, session, sid, nextSid, conn, response, status,
                   pending, buffer, result, error, errStatus, attempts, sent,
                   trace, net>>

\* DNS failure, connection refused, connect timeout: session.get raises.
ConnectFail(c) ==
    /\ pc[c] = "connecting"
    /\ Raise(c, "TransportError")
    /\ UNCHANGED <<session, conn, response, trace, clientLocal, net>>

\* The GET request is written to the connection.
Send(c) ==
    /\ pc[c] = "sending"
    /\ reqs' = reqs \cup {[sid |-> sid[c], url |-> url[c]]}
    /\ sent' = [sent EXCEPT ![c] = @ + 1]
    /\ pc' = [pc EXCEPT ![c] = "awaiting_headers"]
    /\ UNCHANGED <<url, session, sid, nextSid, conn, response, status,
                   pending, buffer, returned, result, error, errStatus,
                   attempts, trace, resps, served>>

\* The connection breaks while the request is written.
SendFail(c) ==
    /\ pc[c] = "sending"
    /\ Raise(c, "TransportError")
    /\ conn' = [conn EXCEPT ![c] = "closed"]
    /\ UNCHANGED <<session, response, trace, clientLocal, net>>

\* The test application handles one request: mock_handler for /test, the
\* router's 404 for any other path.
ServerHandle(r) ==
    /\ r \in reqs
    /\ reqs' = reqs \ {r}
    /\ resps' = resps \cup {[sid |-> r.sid, status |-> StatusOf(r.url),
                             payload |-> Encode(TextOf(r.url))]}
    /\ served' = [served EXCEPT ![r.sid] = @ + 1]
    /\ UNCHANGED <<pc, url, session, sid, nextSid, conn, response, status,
                   pending, buffer, returned, result, error, errStatus,
                   attempts, sent, trace>>

\* Mutant of ResponsesFor: responses are not matched to the connection.
ResponsesForAny(c) == resps

\* The responses that arrive on the connection of call c.
ResponsesFor(c) == {r \in resps : r.sid = sid[c]}

\* session.get(url) completes: status line and headers have arrived and the
\* response context is entered.
RecvHeaders(c) ==
    /\ pc[c] = "awaiting_headers"
    /\ \E r \in ResponsesFor(c) :
        /\ resps' = resps \ {r}
        /\ status' = [status EXCEPT ![c] = r.status]
        /\ pending' = [pending EXCEPT ![c] = r.payload]
    /\ response' = [response EXCEPT ![c] = "open"]
    /\ pc' = [pc EXCEPT ![c] = "checking"]
    /\ trace' = [trace EXCEPT ![c] = @ \o <<"response_open">>]
    /\ UNCHANGED <<url, session, sid, nextSid, conn, buffer, returned, result,
                   error, errStatus, attempts, sent, reqs, served>>

\* Mutant of HeadersFail: the request is retried once before giving up.
HeadersFailRetry(c) ==
    /\ pc[c] = "awaiting_headers"
    /\ conn' = [conn EXCEPT ![c] = "closed"]
    /\ IF attempts[c] < 2
         THEN /\ attempts' = [attempts EXCEPT ![c] = @ + 1]
              /\ pc' = [pc EXCEPT ![c] = "connecting"]
              /\ UNCHANGED error
         ELSE /\ Raise(c, "TransportError")
              /\ UNCHANGED attempts
    /\ UNCHANGED <<url, session, sid, nextSid, response, status, pending,
                   buffer, returned, result, errStatus, sent, trace, net>>

\* The server disconnects or the transport times out before a status line.
HeadersFail(c) ==
    /\ pc[c] = "awaiting_headers"
    /\ Raise(c, "TransportError")
    /\ conn' = [conn EXCEPT ![c] = "closed"]
    /\ UNCHANGED <<session, response, trace, clientLocal, net>>

\* Mutant of RaiseForStatus: only server errors (>= 500) are raised.
RaiseForStatusServerOnly(c) ==
    /\ pc[c] = "checking"
    /\ IF status[c] >= 500
         THEN /\ Raise(c, "HTTPStatusError")
              /\ errStatus' = [errStatus EXCEPT ![c] = status[c]]
              /\ trace' = [trace EXCEPT ![c] = @ \o <<"status_check">>]
         ELSE /\ pc' = [pc EXCEPT ![c] = "reading"]
              /\ trace' = [trace EXCEPT ![c] =
                              @ \o <<"status_check", "read_body">>]
              /\ UNCHANGED <<error, errStatus>>
    /\ UNCHANGED <<url, session, sid, nextSid, conn, response, status,
                   pending, buffer, returned, result, attempts, sent, net>>

\* Mutant of RaiseForStatus: the body is read first and the status checked
\* only when the text is complete.
RaiseForStatusAfterRead(c) ==
    /\ pc[c] = "checking"
    /\ IF buffer[c] = <<>> /\ pending[c] # <<>>
         THEN /\ buffer' = [buffer EXCEPT ![c] =
                    [i \in 1..Len(pending[c]) |-> Decode(pending[c][i])]]
              /\ pending' = [pending EXCEPT ![c] = <<>>]
              /\ trace' = [trace EXCEPT ![c] = @ \o <<"read_body">>]
              /\ UNCHANGED <<pc, error, errStatus, returned, result>>
         ELSE /\ trace' = [trace EXCEPT ![c] = @ \o <<"status_check">>]
              /\ UNCHANGED <<buffer, pending>>
              /\ IF status[c] >= 400
                   THEN /\ Raise(c, "HTTPStatusError")
                        /\ errStatus' = [errStatus EXCEPT ![c] = status[c]]
                        /\ UNCHANGED <<returned, result>>
                   ELSE /\ returned' = [returned EXCEPT ![c] = TRUE]
                        /\ result' = [result EXCEPT ![c] = buffer[c]]
                        /\ pc' = [pc EXCEPT ![c] = "unwinding"]
                        /\ UNCHANGED <<error, errStatus>>
    /\ UNCHANGED <<url, session, sid, nextSid, conn, response, status,
                   attempts, sent, net>>

\* response.raise_for_status(), and on success the start of response.text().
RaiseForStatus(c) ==
    /\ pc[c] = "checking"
    /\ IF status[c] >= 400
         THEN /\ Raise(c, "HTTPStatusError")
              /\ errStatus' = [errStatus EXCEPT ![c] = status[c]]
              /\ trace' = [trace EXCEPT ![c] = @ \o <<"status_check">>]
         ELSE /\ pc' = [pc EXCEPT ![c] = "reading"]
              /\ trace' = [trace EXCEPT ![c] =
                              @ \o <<"status_check", "read_body">>]
              /\ UNCHANGED <<error, errStatus>>
    /\ UNCHANGED <<url, session, sid, nextSid, conn, response, status,
                   pending, buffer, returned, result, attempts, sent, net>>

\* response.text() receives and decodes the next chunk of the payload.
ReadChunk(c) ==
    /\ pc[c] = "reading"
    /\ pending[c] # <<>>
    /\ buffer' = [buffer EXCEPT ![c] = Append(@, Decode(Head(pending[c])))]
    /\ pending' = [pending EXCEPT ![c] = Tail(@)]
    /\ UNCHANGED <<pc, url, session, sid, nextSid, conn, response, status,
                   returned, result, error, errStatus, attempts, sent, trace,
                   net>>

\* Mutant of ReadDone: the text is returned as soon as some of it is there.
ReadDonePartial(c) ==
    /\ pc[c] = "reading"
    /\ buffer[c] # <<>>
    /\ returned' = [returned EXCEPT ![c] = TRUE]
    /\ result' = [result EXCEPT ![c] = buffer[c]]
    /\ pc' = [pc EXCEPT ![c] = "unwinding"]
    /\ UNCHANGED <<url, session, sid, nextSid, conn, response, status,
                   pending, buffer, error, errStatus, attempts, sent, trace,
                   net>>

\* The payload is complete: response.text() yields the text, which the
\* return statement hands to the caller once the blocks are left.
ReadDone(c) ==
    /\ pc[c] = "reading"
    /\ pending[c] = <<>>
    /\ returned' = [returned EXCEPT ![c] = TRUE]
    /\ result' = [result EXCEPT ![c] = buffer[c]]
    /\ pc' = [pc EXCEPT ![c] = "unwinding"]
    /\ UNCHANGED <<url, session, sid, nextSid, conn, response, status,
                   pending, buffer, error, errStatus, attempts, sent, trace,
                   net>>

\* The connection breaks before the payload is complete.
ReadFail(c) ==
    /\ pc[c] = "reading"
    /\ pending[c] # <<>>
    /\ Raise(c, "ClientPayloadError")
    /\ conn' = [conn EXCEPT ![c] = "closed"]
    /\ UNCHANGED <<session, response, trace, clientLocal, net>>

\* Mutant of Cancel: the cancellation is caught and the text read so far
\* is returned.
CancelPartial(c) ==
    /\ pc[c] \in SuspensionPoints
    /\ Raise(c, "CancelledError")
    /\ returned' = [returned EXCEPT ![c] = buffer[c] # <<>>]
    /\ result' = [result EXCEPT ![c] = buffer[c]]
    /\ conn' = [conn EXCEPT ![c] = IF @ = "open" THEN "closed" ELSE @]
    /\ UNCHANGED <<url, session, sid, nextSid, response, status, pending,
                   buffer, errStatus, attempts, sent, trace, net>>

\* The surrounding task is cancelled: CancelledError is thrown into the
\* coroutine at the await it is suspended on.
Cancel(c) ==
    /\ pc[c] \in SuspensionPoints
    /\ Raise(c, "CancelledError")
    /\ conn' = [conn EXCEPT ![c] = IF @ = "open" THEN "closed" ELSE @]
    /\ UNCHANGED <<session, response, trace, clientLocal, net>>

\* Mutant of Unwind: without the async-with blocks an exception leaves the
\* call at once, and only the return path releases anything.
UnwindLeak(c) ==
    /\ pc[c] = "unwinding"
    /\ IF error[c] # None
         THEN /\ pc' = [pc EXCEPT ![c] = "done"]
              /\ UNCHANGED <<response, session, conn, trace>>
         ELSE IF response[c] = "open"
         THEN /\ response' = [response EXCEPT ![c] = "released"]
              /\ trace' = [trace EXCEPT ![c] = @ \o <<"response_release">>]
              /\ UNCHANGED <<pc, session, conn>>
         ELSE /\ session' = [session EXCEPT ![c] = "closed"]
              /\ conn' = [conn EXCEPT ![c] = IF @ = "open" THEN "closed" ELSE @]
              /\ trace' = [trace EXCEPT ![c] = @ \o <<"session_close">>]
              /\ pc' = [pc EXCEPT ![c] = "done"]
              /\ UNCHANGED response
    /\ UNCHANGED <<error, clientLocal, net>>

\* Mutant of Unwind: the session is closed before the response is released.
UnwindOuterFirst(c) ==
    /\ pc[c] = "unwinding"
    /\ IF session[c] = "open"
         THEN /\ session' = [session EXCEPT ![c] = "closed"]
              /\ conn' = [conn EXCEPT ![c] = IF @ = "open" THEN "closed" ELSE @]
              /\ trace' = [trace EXCEPT ![c] = @ \o <<"session_close">>]
              /\ pc' = [pc EXCEPT ![c] =
                           IF response[c] = "open" THEN "unwinding" ELSE "done"]
              /\ UNCHANGED response
         ELSE /\ response' = [response EXCEPT ![c] = "released"]
              /\ trace' = [trace EXCEPT ![c] = @ \o <<"response_release">>]
              /\ pc' = [pc EXCEPT ![c] = "done"]
              /\ UNCHANGED <<session, conn>>
    /\ UNCHANGED <<error, clientLocal, net>>

\* Leaving the async-with blocks, innermost first: the response context
\* releases the response, then the session context closes the session;
\* after that the call has returned or raised.
Unwind(c) ==
    /\ pc[c] = "unwinding"
    /\ IF response[c] = "open"
         THEN /\ response' = [response EXCEPT ![c] = "released"]
              /\ trace' = [trace EXCEPT ![c] = @ \o <<"response_release">>]
              /\ UNCHANGED <<pc, session, conn>>
         ELSE /\ session' = [session EXCEPT ![c] = "closed"]
              /\ conn' = [conn EXCEPT ![c] = IF @ = "open" THEN "closed" ELSE @]
              /\ trace' = [trace EXCEPT ![c] = @ \o <<"session_close">>]
              /\ pc' = [pc EXCEPT ![c] = "done"]
              /\ UNCHANGED response
    /\ UNCHANGED <<error, clientLocal, net>>

Next ==
    \/ \E c \in Calls, u \in URLs : Call(c, u)
    \/ \E c \in Calls : Connect(c)
    \/ \E c \in Calls : ConnectFail(c)
    \/ \E c \in Calls : Send(c)
    \/ \E c \in Calls : SendFail(c)
    \/ \E r \in reqs : ServerHandle(r)
    \/ \E c \in Calls : RecvHeaders(c)
    \/ \E c \in Calls : HeadersFail(c)
    \/ \E c \in Calls : RaiseForStatus(c)
    \/ \E c \in Calls : ReadChunk(c)
    \/ \E c \in Calls : ReadDone(c)
    \/ \E c \in Calls : ReadFail(c)
    \/ \E c \in Calls : Cancel(c)
    \/ \E c \in Calls : Unwind(c)

Spec == Init /\ [][Next]_vars

TypeOK ==
    /\ pc \in [Calls -> PCs]
    /\ url \in [Calls -> URLs \cup {None}]
    /\ session \in [Calls -> {"none", "open", "closed"}]
    /\ sid \in [Calls -> 0..NumCalls]
    /\ nextSid \in 0..NumCalls
    /\ conn \in [Calls -> {"none", "open", "closed"}]
    /\ response \in [Calls -> {"none", "open", "released"}]
    /\ status \in [Calls -> {0, 200, 404}]
    /\ returned \in [Calls -> BOOLEAN]
    /\ error \in [Calls -> Errors \cup {None}]
    /\ attempts \in [Calls -> 0..1]
    /\ sent \in [Calls -> 0..1]

\* ------------------------------------------------------------ properties
Terminated(c) == pc[c] = "done"

\* Index of the first occurrence of event e in the trace of c, 0 if none.
Pos(c, e) ==
    IF \E i \in DOMAIN trace[c] : trace[c][i] = e
      THEN CHOOSE i \in DOMAIN trace[c] :
              /\ trace[c][i] = e
              /\ \A j \in 1..(i - 1) : trace[c][j] # e
      ELSE 0

\* C1 as stated: every terminated call whose response had a non-error
\* status (< 400) returned exactly the text the server sent for its URL and
\* raised nothing.
C1_AsStated ==
    \A c \in Calls :
        (Terminated(c) /\ status[c] # 0 /\ status[c] < 400)
            => /\ returned[c]
               /\ result[c] = TextOf(url[c])
               /\ error[c] = None

\* C1 amended: every terminated call whose response had a non-error status
\* and whose body read was neither broken by the transport nor cancelled
\* returned exactly the text the server sent for its URL and raised nothing.
C1_ReturnsFullBody ==
    \A c \in Calls :
        (/\ Terminated(c)
         /\ status[c] # 0
         /\ status[c] < 400
         /\ error[c] \notin {"ClientPayloadError", "CancelledError"})
            => /\ returned[c]
               /\ result[c] = TextOf(url[c])
               /\ error[c] = None

C1_Witness ==
    \E c \in Calls :
        /\ Terminated(c)
        /\ url[c] = "/test"
        /\ status[c] = 200
        /\ returned[c]
        /\ result[c] = MockText

\* C2: a call whose response status is >= 400 never has a return value, and
\* once it leaves the status check it carries HTTPStatusError to its end.
C2_ErrorStatusRaises ==
    \A c \in Calls :
        status[c] >= 400
            => /\ ~returned[c]
               /\ pc[c] \in {"checking", "unwinding", "done"}
               /\ pc[c] \in {"unwinding", "done"}
                    => error[c] = "HTTPStatusError"

C2_Witness ==
    \E c \in Calls :
        /\ Terminated(c)
        /\ url[c] = "/nonexistent"
        /\ status[c] = 404
        /\ error[c] = "HTTPStatusError"
        /\ pending[c] = Encode(NotFoundText)

\* C3: a terminated call has closed its session and holds neither an open
\* response nor an open connection, whatever way it ended.
C3_SessionReleased ==
    \A c \in Calls :
        Terminated(c)
            => /\ session[c] = "closed"
               /\ response[c] # "open"
               /\ conn[c] # "open"

C3_Witness ==
    \E c, d \in Calls :
        /\ Terminated(c)
        /\ error[c] = "HTTPStatusError"
        /\ response[c] = "released"
        /\ session[c] = "closed"
        /\ Terminated(d)
        /\ error[d] = "TransportError"
        /\ session[d] = "closed"

\* C4: a call that left its request without a status code, other than by
\* cancellation, raises TransportError, has no return value and made a
\* single attempt.
C4_TransportErrorPropagates ==
    \A c \in Calls :
        (/\ pc[c] \in {"unwinding", "done"}
         /\ status[c] = 0
         /\ error[c] # "CancelledError")
            => /\ error[c] = "TransportError"
               /\ ~returned[c]
               /\ attempts[c] = 1

C4_Witness ==
    \E c \in Calls :
        /\ Terminated(c)
        /\ url[c] = "unreachable"
        /\ error[c] = "TransportError"
        /\ sent[c] = 0

\* C5: whatever the interleaving, the status a call sees, the text it
\* returns and the status its error carries are those of its own URL, and
\* no two calls use the same session.
C5_CallsIndependent ==
    \A c \in Calls :
        /\ status[c] # 0 => status[c] = StatusOf(url[c])
        /\ returned[c] => result[c] = TextOf(url[c])
        /\ error[c] = "HTTPStatusError" => errStatus[c] = StatusOf(url[c])
        /\ \A d \in Calls \ {c} : sid[c] # 0 => sid[c] # sid[d]

\* Call d started first and is still in progress with its 404 response,
\* while call c, started later, has already returned its own text.
C5_Witness ==
    \E c, d \in Calls :
        /\ Terminated(c)
        /\ url[c] = "/test"
        /\ returned[c]
        /\ result[c] = MockText
        /\ sid[d] # 0
        /\ sid[d] < sid[c]
        /\ url[d] = "/nonexistent"
        /\ pc[d] = "checking"
        /\ status[d] = 404

\* C6: a cancelled call has no return value, has given up its connection
\* and goes on only to leave its blocks; when it has terminated its session
\* is closed and its response, if any, released.
C6_CancelAbandons ==
    \A c \in Calls :
        error[c] = "CancelledError"
            => /\ ~returned[c]
               /\ pc[c] \in {"unwinding", "done"}
               /\ conn[c] # "open"
               /\ Terminated(c)
                    => session[c] = "closed" /\ response[c] # "open"

\* Cancelled while part of the body had been read.
C6_Witness ==
    \E c \in Calls :
        /\ Terminated(c)
        /\ error[c] = "CancelledError"
        /\ buffer[c] # <<>>
        /\ pending[c] # <<>>
        /\ ~returned[c]

\* C7: two calls that returned for the same URL returned the same text, and
\* every call that returned did so from a request of its own session that
\* the server handled.
C7_NoCaching ==
    \A c \in Calls :
        returned[c]
            => /\ sid[c] \in DOMAIN served
               /\ served[sid[c]] = 1
               /\ \A d \in Calls \ {c} :
                    (returned[d] /\ url[d] = url[c])
                        => result[d] = result[c] /\ sid[d] # sid[c]

C7_Witness ==
    \E c, d \in Calls :
        /\ c # d
        /\ Terminated(c)
        /\ Terminated(d)
        /\ url[c] = "/test"
        /\ url[d] = "/test"
        /\ returned[c]
        /\ returned[d]
        /\ served[sid[c]] + served[sid[d]] = 2

\* C8: a call invokes session.get once, puts at most one request on the
\* wire, and exactly one whenever it obtained a status; the server handles
\* at most one request per call.
C8_SingleRequest ==
    \A c \in Calls :
        pc[c] # "idle"
            => /\ attempts[c] = 1
               /\ sent[c] <= 1
               /\ status[c] # 0 => sent[c] = 1
               /\ sid[c] \in DOMAIN served => served[sid[c]] <= sent[c]

\* A transport failure after the request was sent, and no second request.
C8_Witness ==
    \E c \in Calls :
        /\ Terminated(c)
        /\ error[c] = "TransportError"
        /\ sent[c] = 1
        /\ attempts[c] = 1

\* C9: the body read never starts before the status check, and never starts
\* at all when the status is >= 400.
C9_StatusCheckFirst ==
    \A c \in Calls :
        /\ Pos(c, "read_body") # 0
              => /\ Pos(c, "status_check") # 0
                 /\ Pos(c, "status_check") < Pos(c, "read_body")
        /\ buffer[c] # <<>> => Pos(c, "read_body") # 0
        /\ status[c] >= 400
              => /\ Pos(c, "read_body") = 0
                 /\ pc[c] # "reading"
                 /\ buffer[c] = <<>>

C9_Witness ==
    \E c \in Calls :
        /\ Terminated(c)
        /\ status[c] = 404
        /\ Pos(c, "status_check") # 0
        /\ Pos(c, "read_body") = 0
        /\ pending[c] # <<>>

\* C10: a terminated call has either a return value or an error, never both
\* and never neither; and the scopes nest: session opened, response opened,
\* response released, session closed.
C10_OneOutcomeNestedScopes ==
    \A c \in Calls :
        /\ Terminated(c) => (returned[c] <=> error[c] = None)
        /\ response[c] = "open" => session[c] = "open"
        /\ Pos(c, "response_open") # 0
              => /\ Pos(c, "session_open") # 0
                 /\ Pos(c, "session_open") < Pos(c, "response_open")
        /\ Pos(c, "response_release") # 0
              => /\ Pos(c, "response_open") # 0
                 /\ Pos(c, "response_open") < Pos(c, "response_release")
        /\ (Pos(c, "session_close") # 0 /\ Pos(c, "response_open") # 0)
              => /\ Pos(c, "response_release") # 0
                 /\ Pos(c, "response_release") < Pos(c, "session_close")

C10_Witness ==
    \E c \in Calls :
        /\ Terminated(c)
        /\ returned[c]
        /\ trace[c] = <<"session_open", "get", "response_open", "status_check",
                        "read_body", "response_release", "session_close">>

====
